---- MODULE Spec2Model ----
(***************************************************************************)
(* A model of the JetNet dataset class of src/jetnet.py: the construction  *)
(* pipeline (load_dataset, get_jet_features, normalize_features,           *)
(* add_noise_padding, the train/test split) and the calls a client makes   *)
(* on a constructed instance (__len__, __getitem__, unnormalize_features,  *)
(* add_noise_padding).                                                     *)
(*                                                                         *)
(* Tensors are sequences: dataset[j][p][f] is feature f of particle p of   *)
(* jet j, all 1-based (python index i is TLA+ index i+1).  A tensor value  *)
(* is an exact fraction <<n, d>> with d > 0 in lowest terms, or one of the *)
(* three non-finite IEEE values <<0,0>> (NaN), <<1,0>> (+inf), <<-1,0>>    *)
(* (-inf).  Rounding of float32 arithmetic and the sign of zero are not    *)
(* modelled; division by zero, NaN propagation and comparisons with NaN    *)
(* follow IEEE 754, which is what torch does on float tensors.             *)
(***************************************************************************)
EXTENDS Integers, Sequences, FiniteSets, TLC

(* ----------------------------- bounds --------------------------------- *)

\* number of jets in the file read by torch.load
NumJets == 2

\* number of calls made on a constructed instance
MaxCalls == 1

\* largest num_pad_particles tried
MaxPad == 1

(* ------------------------- program constants -------------------------- *)

\* particles per jet in the stored file: reshape(-1, 30, 4)
TotalParticles == 30

\* dataset[:, :, 2], the pT feature (1-based here)
PtFeature == 3

\* dataset[:, :, 3], the mask feature (1-based here)
MaskFeature == 4

\* python's None, for the entries of feature_norms / feature_shifts and for
\* the mask of unnormalize_features when use_mask is False
None == << >>

(* --------------------------- float values ----------------------------- *)

NaN == <<0, 0>>

PosInf == <<1, 0>>

NegInf == <<-1, 0>>

Sgn(n) == IF n > 0 THEN 1 ELSE IF n < 0 THEN -1 ELSE 0

AbsInt(n) == IF n < 0 THEN -n ELSE n

RECURSIVE GCD(_, _)
GCD(a, b) == IF b = 0 THEN a ELSE GCD(b, a % b)

\* the fraction n/d (d # 0) in lowest terms with a positive denominator
Frac(n, d) ==
  LET g == GCD(AbsInt(n), AbsInt(d))
      s == Sgn(d)
  IN  <<(s * n) \div g, (s * d) \div g>>

Zero == <<0, 1>>

IsNaN(a) == a = NaN

IsFinite(a) == a[2] # 0

FNeg(a) == <<-a[1], a[2]>>

FAbs(a) == <<AbsInt(a[1]), a[2]>>

FAdd(a, b) ==
  IF IsNaN(a) \/ IsNaN(b) THEN NaN
  ELSE IF ~IsFinite(a) /\ ~IsFinite(b) THEN (IF a = b THEN a ELSE NaN)
  ELSE IF ~IsFinite(a) THEN a
  ELSE IF ~IsFinite(b) THEN b
  ELSE Frac(a[1] * b[2] + b[1] * a[2], a[2] * b[2])

FSub(a, b) == FAdd(a, FNeg(b))

FMul(a, b) ==
  IF ~IsFinite(a) \/ ~IsFinite(b) THEN <<Sgn(a[1]) * Sgn(b[1]), 0>>
  ELSE Frac(a[1] * b[1], a[2] * b[2])

FDiv(a, b) ==
  IF IsNaN(a) \/ IsNaN(b) THEN NaN
  ELSE IF b[1] = 0 THEN <<Sgn(a[1]), 0>>
  ELSE IF ~IsFinite(b) THEN (IF IsFinite(a) THEN Zero ELSE NaN)
  ELSE IF ~IsFinite(a) THEN <<Sgn(a[1]) * Sgn(b[1]), 0>>
  ELSE Frac(a[1] * b[2], a[2] * b[1])

\* a < b; every comparison with NaN is false
FLt(a, b) ==
  IF IsNaN(a) \/ IsNaN(b) THEN FALSE
  ELSE IF ~IsFinite(a) \/ ~IsFinite(b)
       THEN (IF a = b THEN FALSE ELSE a = NegInf \/ b = PosInf)
  ELSE a[1] * b[2] < b[1] * a[2]

FGt(a, b) == FLt(b, a)

FGe(a, b) == ~IsNaN(a) /\ ~IsNaN(b) /\ ~FLt(a, b)

\* tensor.bool(): every value other than zero is True, NaN included
FBool(a) == a # Zero

(* --------------------------- tensor helpers --------------------------- *)

NumParticlesOf(ds) == IF Len(ds) = 0 THEN 0 ELSE Len(ds[1])

\* the index pairs <<j, p>> of the slots of an [N, P, F] tensor
Slots(ds) == {<<j, p>> : j \in 1..Len(ds), p \in 1..NumParticlesOf(ds)}

ColumnValues(ds, f) == {ds[s[1]][s[2]][f] : s \in Slots(ds)}

\* dataset[:, :, f] as an [N, P] tensor
Column(ds, f) == [j \in 1..Len(ds) |-> [p \in 1..Len(ds[j]) |-> ds[j][p][f]]]

\* the largest of a non-empty set of non-NaN values
MaxOf(S) == CHOOSE m \in S : \A x \in S : ~FLt(m, x)

\* the smallest of a non-empty set of non-NaN values
MinOf(S) == CHOOSE m \in S : \A x \in S : ~FLt(x, m)

RECURSIVE SumSeq(_)
SumSeq(s) == IF s = << >> THEN Zero ELSE FAdd(s[1], SumSeq(Tail(s)))

(* ------------------------ the file on disk ---------------------------- *)

\* One particle of the stored [N, 30, 4] tensor.  JetNet jets list their real
\* particles first (mask 1) and are zero-padded to 30 particles (mask 0).
RawParticle(j, p, real) ==
  IF p <= real
  THEN <<Frac(2 - p, 4), Frac(j, 2), Frac(1, p + j), <<1, 1>>>>
  ELSE <<Zero, Zero, Zero, Zero>>

\* number of real particles of jet j in each of the files tried
RealCount(kind, j) ==
  CASE kind = "empty" -> 0
    [] kind = "sparse" -> j + 1

FileKinds == {"empty", "sparse"}

\* the tensor torch.load returns
RawFile(kind) ==
  [j \in 1..NumJets |-> [p \in 1..TotalParticles |-> RawParticle(j, p, RealCount(kind, j))]]

(* ----------------------- constructor arguments ------------------------ *)

One == <<1, 1>>

\* feature_norms / feature_shifts pairs tried: the defaults of __init__, and a
\* configuration with unscaled features and another shift of the mask
NormChoices ==
  { [norms |-> <<One, One, One, One>>,
     shifts |-> <<Zero, Zero, Frac(-1, 2), Frac(-1, 2)>>],
    [norms |-> <<One, None, None, None>>,
     shifts |-> <<None, Zero, Zero, Frac(-3, 2)>>] }

NumParticlesChoices == {0, 1, TotalParticles}

TrainFractionChoices == {Zero, Frac(7, 10), One}

Configs ==
  [ num_particles : NumParticlesChoices,
    num_pad_particles : 0..MaxPad,
    norm : NormChoices,
    use_mask : BOOLEAN,
    train : BOOLEAN,
    train_fraction : TrainFractionChoices,
    use_num_particles_jet_feature : BOOLEAN,
    noise_padding : BOOLEAN,
    file : FileKinds ]

(* --------------------------- load_dataset ----------------------------- *)

ZeroParticle(nf) == [f \in 1..nf |-> Zero]

\* dataset[:, :n, :]
TruncateParticles(ds, n) == [j \in 1..Len(ds) |-> SubSeq(ds[j], 1, n)]

\* torch.nn.functional.pad(dataset, (0, 0, 0, n), "constant", 0)
PadParticles(ds, n) ==
  [j \in 1..Len(ds) |-> ds[j] \o [p \in 1..n |-> ZeroParticle(Len(ds[j][1]))]]

\* dataset[:, :, :-1]
DropLastFeature(ds) ==
  [j \in 1..Len(ds) |-> [p \in 1..Len(ds[j]) |-> SubSeq(ds[j][p], 1, Len(ds[j][p]) - 1)]]

load_dataset(raw, num_particles, num_pad_particles, use_mask) ==
  LET keep == num_particles - num_pad_particles
      cut == IF 0 < keep /\ keep < NumParticlesOf(raw)
             THEN TruncateParticles(raw, keep) ELSE raw
      padded == IF num_pad_particles > 0
                THEN PadParticles(cut, num_pad_particles) ELSE cut
  IN  IF ~use_mask THEN DropLastFeature(padded) ELSE padded

(* -------------------------- get_jet_features -------------------------- *)

\* (torch.sum(dataset[:, :, 3], dim=1) / self.num_particles).unsqueeze(1)
get_jet_features(ds, self_num_particles) ==
  [j \in 1..Len(ds) |->
     <<FDiv(SumSeq(Column(ds, MaskFeature)[j]), <<self_num_particles, 1>>)>>]

(* ------------------------- normalize_features ------------------------- *)

\* float(torch.max(torch.abs(dataset[:, :, i])))
FeatureMax(ds, f) == MaxOf({FAbs(v) : v \in ColumnValues(ds, f)})

NumFeaturesOf(ds) == Len(ds[1][1])

\* dataset[:, :, i] /= feature_maxes[i]; dataset[:, :, i] *= feature_norms[i]
Scale(v, observed, norm) ==
  IF norm # None THEN FMul(FDiv(v, observed), norm) ELSE v

\* dataset[:, :, i] += feature_shifts[i]
Shift(v, shift) ==
  IF shift # None /\ shift # Zero THEN FAdd(v, shift) ELSE v

\* the loop of normalize_features: each feature column is scaled, then shifted
NormalizeAll(ds, maxes, norms, shifts) ==
  [j \in 1..Len(ds) |-> [p \in 1..Len(ds[j]) |->
     [f \in 1..Len(ds[j][p]) |->
        Shift(Scale(ds[j][p][f], maxes[f], norms[f]), shifts[f])]]]

\* torch.unique(x, sorted=True): the distinct values in ascending order; NaN
\* differs from every value, itself included, so every NaN is kept, last.
\* The result is given as its length and its element [1].
UniqueLen(ds, f) ==
  Cardinality(ColumnValues(ds, f) \ {NaN})
    + Cardinality({s \in Slots(ds) : ds[s[1]][s[2]][f] = NaN})

UniqueSecond(ds, f) ==
  LET S == ColumnValues(ds, f) \ {NaN}
  IN  IF Cardinality(S) >= 2 THEN MinOf(S \ {MinOf(S)}) ELSE NaN

\* the result of normalize_features, or the exception it raises
normalize_features(ds, norms, shifts) ==
  LET nf == NumFeaturesOf(ds)
      maxes == [f \in 1..nf |-> FeatureMax(ds, f)]
      out == NormalizeAll(ds, maxes, norms, shifts)
  IN  IF UniqueLen(out, PtFeature) < 2
      THEN [err |-> "IndexError", dataset |-> out, feature_maxes |-> maxes,
            pt_cutoff |-> None]
      ELSE [err |-> "none", dataset |-> out, feature_maxes |-> maxes,
            pt_cutoff |-> UniqueSecond(out, PtFeature)]

(* ------------------------ unnormalize_features ------------------------ *)

\* the keyword arguments of unnormalize_features tried: the defaults, and real
\* data returned combined
FlagChoices ==
  { [ret_mask_separate |-> TRUE, is_real_data |-> FALSE,
     zero_mask_particles |-> TRUE, zero_neg_pt |-> TRUE],
    [ret_mask_separate |-> FALSE, is_real_data |-> TRUE,
     zero_mask_particles |-> TRUE, zero_neg_pt |-> TRUE] }

\* dataset[:, :, i] -= self.feature_shifts[i]
Unshift(v, shift) ==
  IF shift # None /\ shift # Zero THEN FSub(v, shift) ELSE v

\* dataset[:, :, i] /= self.feature_norms[i]; dataset[:, :, i] *= self.feature_maxes[i]
Unscale(v, observed, norm) ==
  IF norm # None THEN FMul(FDiv(v, norm), observed) ELSE v

\* the loop of unnormalize_features: each feature column is unshifted, then
\* unscaled
UnnormalizeAll(ds, maxes, norms, shifts) ==
  [j \in 1..Len(ds) |-> [p \in 1..Len(ds[j]) |->
     [f \in 1..Len(ds[j][p]) |->
        Unscale(Unshift(ds[j][p][f], shifts[f]), maxes[f], norms[f])]]]

\* dataset[:, :, -1] >= 0.5, for one particle
MaskOf(particle) == FGe(particle[Len(particle)], Frac(1, 2))

\* dataset[~mask] = 0, for one particle
ZeroMasked(particle) ==
  IF MaskOf(particle) THEN particle ELSE ZeroParticle(Len(particle))

\* dataset[:, :, 2][dataset[:, :, 2] < 0] = 0, for one particle
ZeroNegPt(particle) ==
  [f \in 1..Len(particle) |->
     IF f = PtFeature /\ FLt(particle[f], Zero) THEN Zero ELSE particle[f]]

\* The pair unnormalize_features returns, and the argument tensor as the call
\* leaves it: every assignment of the method writes into its argument.  The
\* second element carries its dtype: the mask is a bool tensor.
\* `return dataset[:, :, -1], mask if ret_mask_separate else dataset` is the
\* tuple (dataset[:, :, -1], (mask if ret_mask_separate else dataset)).
unnormalize_features(ds, nf, maxes, norms, shifts, use_mask, flags) ==
  LET inv == UnnormalizeAll(ds, maxes, norms, shifts)
      mask == IF use_mask
              THEN [j \in 1..Len(inv) |-> [p \in 1..Len(inv[j]) |-> MaskOf(inv[j][p])]]
              ELSE None
      zeroed == IF ~flags.is_real_data /\ flags.zero_mask_particles /\ use_mask
                THEN [j \in 1..Len(inv) |-> [p \in 1..Len(inv[j]) |->
                        ZeroMasked(inv[j][p])]]
                ELSE inv
      final == IF ~flags.is_real_data /\ flags.zero_neg_pt
               THEN [j \in 1..Len(zeroed) |-> [p \in 1..Len(zeroed[j]) |->
                       ZeroNegPt(zeroed[j][p])]]
               ELSE zeroed
  IN  [dataset |-> final,
       first |-> Column(final, nf),
       second |-> IF flags.ret_mask_separate
                  THEN [dtype |-> IF use_mask THEN "bool" ELSE "none", tensor |-> mask]
                  ELSE [dtype |-> "float", tensor |-> final]]

(* -------------------------- add_noise_padding ------------------------- *)

\* Values torch.randn may draw for the three non-mask features of a slot; in a
\* run of the model every slot draws the same three values.
RandnChoices ==
  { <<Frac(1, 1), Frac(-2, 1), Frac(1, 2)>>,
    <<Frac(6, 1), Frac(-6, 1), Frac(6, 1)>> }

Clamp(v) == IF FGt(v, One) THEN One ELSE IF FLt(v, FNeg(One)) THEN FNeg(One) ELSE v

\* randn / 5, clamped to [-1, 1], the pT noise halved
NoiseOf(z) ==
  [f \in 1..3 |->
     LET c == Clamp(FDiv(z[f], <<5, 1>>))
     IN  IF f = PtFeature THEN FDiv(c, <<2, 1>>) ELSE c]

\* mask = (dataset[:, :, 3] + 0.5).bool()
NoiseMask(particle) == FBool(FAdd(particle[MaskFeature], Frac(1, 2)))

\* The tensor add_noise_padding leaves in its argument (dataset += ...), or the
\* exception it raises.  ds is [N, P, F]; the noise is [N, self.num_particles,
\* F - 1]: it has a pT column only if F = 4, and the mask [N, P] indexes it
\* only if P = self.num_particles.
add_noise_padding(ds, P, F, self_num_particles, z) ==
  IF F - 1 < PtFeature \/ P # self_num_particles
  THEN [err |-> "IndexError", dataset |-> ds]
  ELSE LET noise == NoiseOf(z)
       IN  [err |-> "none",
            dataset |->
              [j \in 1..Len(ds) |-> [p \in 1..Len(ds[j]) |->
                 IF NoiseMask(ds[j][p]) THEN ds[j][p]
                 ELSE [f \in 1..F |->
                         IF f = MaskFeature THEN ds[j][p][f]
                         ELSE FAdd(ds[j][p][f], noise[f])]]]]

(* ------------------------------ the split ----------------------------- *)

\* int(len(dataset) * train_fraction), train_fraction >= 0
TCut(n, fraction) == (n * fraction[1]) \div fraction[2]

\* a split whose test slice starts one jet late: dataset[tcut + 1:]
SplitData_TestStartsLate(ds, cut, train) ==
  IF train THEN SubSeq(ds, 1, cut) ELSE SubSeq(ds, cut + 2, Len(ds))

\* dataset[:tcut] if train else dataset[tcut:]
SplitData(ds, cut, train) ==
  IF train THEN SubSeq(ds, 1, cut) ELSE SubSeq(ds, cut + 1, Len(ds))

\* self.data is a view of the tensor it was sliced from: what is written
\* through self.data is written into that tensor
WriteBack(full, part, cut, train) ==
  IF train THEN part \o SubSeq(full, cut + 1, Len(full))
  ELSE SubSeq(full, 1, cut) \o part

(* ------------------------------ the state ----------------------------- *)

VARIABLES
  cfg,                \* the arguments of JetNet(...) and the file they select
  pc,                 \* how far __init__ has run
  err,                \* the exception of the last call, or "none"
  attrs,              \* the attributes assigned on self so far
  dataset,            \* the local `dataset` of __init__, the tensor self.data views
  jet_features,       \* the local `jet_features` of __init__
  tcut,               \* the local `tcut` of __init__
  self_use_jet_features,
  self_noise_padding,
  self_feature_maxes,
  self_pt_cutoff,
  self_data,
  self_jet_features,
  op,                 \* the last call made on the constructed instance
  ret,                \* what that call returned
  calls               \* how many calls were made on the constructed instance

vars ==
  <<cfg, pc, err, attrs, dataset, jet_features, tcut, self_use_jet_features,
    self_noise_padding, self_feature_maxes, self_pt_cutoff, self_data,
    self_jet_features, op, ret, calls>>

NoCall == [name |-> "none", args |-> << >>]

Nothing == [dtype |-> "none", tensor |-> None]

NoValue == [first |-> None, second |-> Nothing]

Init ==
  /\ cfg \in Configs
  /\ pc = "start"
  /\ err = "none"
  /\ attrs = {}
  /\ dataset = << >>
  /\ jet_features = << >>
  /\ tcut = 0
  /\ self_use_jet_features = FALSE
  /\ self_noise_padding = FALSE
  /\ self_feature_maxes = << >>
  /\ self_pt_cutoff = None
  /\ self_data = << >>
  /\ self_jet_features = << >>
  /\ op = NoCall
  /\ ret = NoValue
  /\ calls = 0

(* ------------------------------ __init__ ------------------------------ *)

\* self.num_particles ... self.noise_padding.  self.feature_norms,
\* self.feature_shifts, self.num_particles and self.use_mask are never assigned
\* again: they are read from cfg.  The last assignment evaluates
\* `noise_padding and self.use_masks`: it reads the attribute use_masks, which
\* neither __init__ nor torch.utils.data.Dataset defines, when noise_padding
\* is true.
Construct_attrs ==
  /\ pc = "start"
  /\ self_use_jet_features' = (cfg.use_num_particles_jet_feature /\ cfg.use_mask)
  /\ LET assigned == {"num_particles", "feature_norms", "feature_shifts",
                      "use_mask", "use_jet_features"}
     IN  IF cfg.noise_padding /\ "use_masks" \notin assigned
         THEN /\ pc' = "failed"
              /\ err' = "AttributeError"
              /\ attrs' = assigned
              /\ UNCHANGED self_noise_padding
         ELSE /\ pc' = "attrs"
              /\ attrs' = assigned \cup {"noise_padding"}
              /\ self_noise_padding' = FALSE
              /\ UNCHANGED err
  /\ UNCHANGED <<cfg, dataset, jet_features, tcut, self_feature_maxes,
                 self_pt_cutoff, self_data, self_jet_features, op, ret, calls>>

\* dataset = self.load_dataset(pt_file, num_particles, num_pad_particles, use_mask)
Construct_load ==
  /\ pc = "attrs"
  /\ dataset' = load_dataset(RawFile(cfg.file), cfg.num_particles,
                             cfg.num_pad_particles, cfg.use_mask)
  /\ pc' = "loaded"
  /\ UNCHANGED <<cfg, err, attrs, jet_features, tcut, self_use_jet_features,
                 self_noise_padding, self_feature_maxes, self_pt_cutoff,
                 self_data, self_jet_features, op, ret, calls>>

\* if self.use_jet_features: jet_features = self.get_jet_features(...)
Construct_jet_features ==
  /\ pc = "loaded"
  /\ jet_features' = IF self_use_jet_features
                     THEN get_jet_features(dataset, cfg.num_particles)
                     ELSE jet_features
  /\ pc' = "extracted"
  /\ UNCHANGED <<cfg, err, attrs, dataset, tcut, self_use_jet_features,
                 self_noise_padding, self_feature_maxes, self_pt_cutoff,
                 self_data, self_jet_features, op, ret, calls>>

\* dataset, self.feature_maxes, self.pt_cutoff = self.normalize_features(...)
Construct_normalize ==
  /\ pc = "extracted"
  /\ LET r == normalize_features(dataset, cfg.norm.norms, cfg.norm.shifts)
     IN  /\ dataset' = r.dataset
         /\ IF r.err # "none"
            THEN /\ pc' = "failed"
                 /\ err' = r.err
                 /\ UNCHANGED <<attrs, self_feature_maxes, self_pt_cutoff>>
            ELSE /\ pc' = "normalized"
                 /\ self_feature_maxes' = r.feature_maxes
                 /\ self_pt_cutoff' = r.pt_cutoff
                 /\ attrs' = attrs \cup {"feature_maxes", "pt_cutoff"}
                 /\ UNCHANGED err
  /\ UNCHANGED <<cfg, jet_features, tcut, self_use_jet_features,
                 self_noise_padding, self_data, self_jet_features, op, ret, calls>>

\* if self.noise_padding: ...; tcut = ...; self.data = ...; self.jet_features = ...
Construct_split ==
  /\ pc = "normalized"
  /\ \E z \in RandnChoices :
       LET r == IF self_noise_padding
                THEN add_noise_padding(dataset, NumParticlesOf(dataset),
                                       NumFeaturesOf(dataset), cfg.num_particles, z)
                ELSE [err |-> "none", dataset |-> dataset]
           cut == TCut(Len(r.dataset), cfg.train_fraction)
       IN  IF r.err # "none"
           THEN /\ pc' = "failed"
                /\ err' = r.err
                /\ UNCHANGED <<attrs, dataset, tcut, self_data, self_jet_features>>
           ELSE /\ pc' = "done"
                /\ dataset' = r.dataset
                /\ tcut' = cut
                /\ self_data' = SplitData(r.dataset, cut, cfg.train)
                /\ self_jet_features' =
                     IF self_use_jet_features
                     THEN SplitData(jet_features, cut, cfg.train)
                     ELSE self_jet_features
                /\ attrs' = attrs \cup {"data"} \cup
                     (IF self_use_jet_features THEN {"jet_features"} ELSE {})
                /\ UNCHANGED err
  /\ UNCHANGED <<cfg, jet_features, self_use_jet_features, self_noise_padding,
                 self_feature_maxes, self_pt_cutoff, op, ret, calls>>

(* ------------------ calls on the constructed instance ----------------- *)

Constructed == pc = "done" /\ calls < MaxCalls

\* what is left alone by a call that writes no tensor
FrameOfRead ==
  UNCHANGED <<cfg, pc, attrs, dataset, jet_features, tcut, self_use_jet_features,
              self_noise_padding, self_feature_maxes, self_pt_cutoff, self_data,
              self_jet_features>>

\* what is left alone by a call that writes into self.data
FrameOfWrite ==
  UNCHANGED <<cfg, pc, attrs, jet_features, tcut, self_use_jet_features,
              self_noise_padding, self_feature_maxes, self_pt_cutoff,
              self_jet_features>>

\* __len__: return len(self.X)
Call_len ==
  /\ Constructed
  /\ op' = [name |-> "len", args |-> << >>]
  /\ calls' = calls + 1
  /\ IF "X" \in attrs
     THEN /\ err' = "none"
          /\ ret' = [first |-> Len(self_data), second |-> Nothing]
     ELSE /\ err' = "AttributeError"
          /\ ret' = NoValue
  /\ FrameOfRead

\* __getitem__: return self.data[idx], self.jet_features[idx] if
\* self.use_jet_features else self.data[idx]
Call_getitem ==
  /\ Constructed
  /\ \E idx \in 0..Len(self_data) :
       /\ op' = [name |-> "getitem", args |-> <<idx>>]
       /\ IF idx >= Len(self_data)
          THEN /\ err' = "IndexError"
               /\ ret' = NoValue
          ELSE /\ err' = "none"
               /\ ret' = [first |-> self_data[idx + 1],
                          second |-> [dtype |-> "float",
                                      tensor |-> IF self_use_jet_features
                                                 THEN self_jet_features[idx + 1]
                                                 ELSE self_data[idx + 1]]]
  /\ calls' = calls + 1
  /\ FrameOfRead

\* unnormalize_features(x, ...) with x = self.data (alias) or a copy of it
Call_unnormalize_features ==
  /\ Constructed
  /\ \E alias \in BOOLEAN, flags \in FlagChoices :
       \E r \in {unnormalize_features(self_data, Len(self_feature_maxes),
                                      self_feature_maxes, cfg.norm.norms,
                                      cfg.norm.shifts, cfg.use_mask, flags)} :
           /\ op' = [name |-> "unnormalize_features", args |-> <<alias, flags>>]
           /\ err' = "none"
           /\ ret' = [first |-> r.first, second |-> r.second]
           /\ self_data' = IF alias THEN r.dataset ELSE self_data
           /\ dataset' = IF alias
                         THEN WriteBack(dataset, r.dataset, tcut, cfg.train)
                         ELSE dataset
  /\ calls' = calls + 1
  /\ FrameOfWrite

\* add_noise_padding(self.data)
Call_add_noise_padding ==
  /\ Constructed
  /\ \E z \in RandnChoices :
       \E r \in {add_noise_padding(self_data, NumParticlesOf(dataset),
                                   Len(self_feature_maxes), cfg.num_particles, z)} :
           /\ op' = [name |-> "add_noise_padding", args |-> <<z>>]
           /\ err' = r.err
           /\ ret' = IF r.err = "none"
                     THEN [first |-> r.dataset, second |-> Nothing] ELSE NoValue
           /\ self_data' = r.dataset
           /\ dataset' = WriteBack(dataset, r.dataset, tcut, cfg.train)
  /\ calls' = calls + 1
  /\ FrameOfWrite

Next ==
  \/ Construct_attrs
  \/ Construct_load
  \/ Construct_jet_features
  \/ Construct_normalize
  \/ Construct_split
  \/ Call_len
  \/ Call_getitem
  \/ Call_unnormalize_features
  \/ Call_add_noise_padding

Spec == Init /\ [][Next]_vars

(* ------------------------------ properties ---------------------------- *)

\* the tensor load_dataset returned, before normalize_features wrote into it
Loaded ==
  load_dataset(RawFile(cfg.file), cfg.num_particles, cfg.num_pad_particles,
               cfg.use_mask)

\* the jets of Loaded that self.data holds
LoadedSplit == SplitData(Loaded, tcut, cfg.train)

AfterLoad == pc \in {"loaded", "extracted", "normalized", "done"}

\* C1: on a constructed Dataset, length() returns the number of records of
\* the stored split.
C1_LengthIsRecordCount ==
  op.name = "len" => (err = "none" /\ ret.first = Len(self_data))

\* the arguments C2 calls valid
ValidShapeRequest ==
  cfg.num_particles > 0 => cfg.num_particles - cfg.num_pad_particles > 0

\* C2: for every valid request the particle axis of the adjusted array, and of
\* every stored record, has length P_target when P_target > 0 and 30 when
\* P_target = 0.
C2_ShapeInvariant ==
  (AfterLoad /\ ValidShapeRequest) =>
    LET want == IF cfg.num_particles > 0 THEN cfg.num_particles ELSE TotalParticles
    IN  /\ \A j \in 1..Len(dataset) : Len(dataset[j]) = want
        /\ \A j \in 1..Len(self_data) : Len(self_data[j]) = want

\* the features C3 speaks of: max and shift both given, or both null
RoundTripFeature(f) ==
  \/ cfg.norm.norms[f] # None /\ cfg.norm.shifts[f] # None
  \/ cfg.norm.norms[f] = None /\ cfg.norm.shifts[f] = None

\* C3: the array unnormalize hands back for normalize(x) is x again, in every
\* feature whose max and shift are both given or both null.
C3_RoundTrip ==
  (op.name = "unnormalize_features" /\ calls = 1) =>
    /\ ret.second.dtype = "float"
    /\ Len(ret.second.tensor) = Len(LoadedSplit)
    /\ \A j \in 1..Len(LoadedSplit) : \A p \in 1..Len(LoadedSplit[j]) :
         \A f \in 1..Len(LoadedSplit[j][p]) :
           RoundTripFeature(f) => ret.second.tensor[j][p][f] = LoadedSplit[j][p][f]

\* C4: noise padding leaves the mask column of every slot, and every feature
\* of a slot whose mask was >= 0.5 before normalization, as they were.
C4_MaskExclusivity ==
  [][(pc = "done" /\ calls = 0 /\ op'.name = "add_noise_padding" /\ err' = "none") =>
       \A j \in 1..Len(self_data) : \A p \in 1..Len(self_data[j]) :
         /\ self_data'[j][p][MaskFeature] = self_data[j][p][MaskFeature]
         /\ FGe(LoadedSplit[j][p][MaskFeature], Frac(1, 2)) =>
              self_data'[j][p] = self_data[j][p]]_vars

\* C5: the jet feature of every jet is the sum of its pre-normalization mask
\* column divided by the particle-axis length of the adjusted array.
C5_JetFeature ==
  (pc \in {"extracted", "normalized", "done"} /\ self_use_jet_features) =>
    \A j \in 1..Len(Loaded) :
      jet_features[j] =
        <<FDiv(SumSeq(Column(Loaded, MaskFeature)[j]), <<Len(Loaded[j]), 1>>)>>

\* the split a Dataset built from the same array with the other train/test
\* selector stores
OtherSplit(full) == SplitData(full, tcut, ~cfg.train)

TrainSplit(full, mine) == IF cfg.train THEN mine ELSE OtherSplit(full)

TestSplit(full, mine) == IF cfg.train THEN OtherSplit(full) ELSE mine

\* train is the first tcut entries of full and test the rest, in order
SplitsCover(full, train, test) ==
  /\ Len(train) + Len(test) = Len(full)
  /\ Len(train) = tcut
  /\ \A i \in 1..Len(train) : train[i] = full[i]
  /\ \A i \in 1..Len(test) : test[i] = full[Len(train) + i]

\* C6: the train split is the prefix and the test split the suffix of the
\* full array at one cut index, their lengths add up to N, and the jet
\* features are cut at the same index.
C6_SplitCompleteness ==
  pc = "done" =>
    /\ SplitsCover(dataset, TrainSplit(dataset, self_data), TestSplit(dataset, self_data))
    /\ self_use_jet_features =>
         SplitsCover(jet_features, TrainSplit(jet_features, self_jet_features),
                     TestSplit(jet_features, self_jet_features))

\* a construction that stored two non-empty splits' worth of jets with jet features
C6_Witness ==
  /\ pc = "done"
  /\ self_use_jet_features
  /\ 0 < tcut /\ tcut < Len(dataset)
  /\ Len(self_data) > 0
  /\ ~cfg.train

\* C7: normalize always yields a pt_cutoff, the smallest normalized pT
\* strictly above the minimum of that feature.
C7_PtCutoff ==
  /\ pc = "failed" => err # "IndexError"
  /\ pc = "normalized" =>
       LET S == ColumnValues(dataset, PtFeature)
       IN  /\ self_pt_cutoff \in S
           /\ FGt(self_pt_cutoff, MinOf(S))
           /\ \A v \in S : FGt(v, MinOf(S)) => ~FLt(v, self_pt_cutoff)

\* C8: a column that is constant 0 and has a target max holds only finite
\* values after normalization.
C8_DegenerateColumnFinite ==
  pc = "normalized" =>
    \A f \in 1..NumFeaturesOf(Loaded) :
      (FeatureMax(Loaded, f) = Zero /\ cfg.norm.norms[f] # None) =>
        \A v \in ColumnValues(dataset, f) : IsFinite(v)

\* C9: a request with P_target > 0 and P_target - P_pad <= 0 never gets an
\* array out of the shape adjustment, and no Dataset is built from it.
C9_DegenerateRejected ==
  (cfg.num_particles > 0 /\ cfg.num_particles - cfg.num_pad_particles <= 0) =>
    ~AfterLoad

\* C10: get(index) and unnormalize leave the stored split, the jet features
\* and the fitted parameters of a constructed Dataset as they were.
C10_NoMutation ==
  [][(pc = "done" /\ op'.name \in {"getitem", "unnormalize_features"}) =>
       /\ self_data' = self_data
       /\ self_jet_features' = self_jet_features
       /\ self_feature_maxes' = self_feature_maxes
       /\ self_pt_cutoff' = self_pt_cutoff
       /\ cfg' = cfg]_vars

====
